---- MODULE Spec2Model ----
(***************************************************************************)
(* Model of the Purge cog (src/purge/core.py): the predicates the          *)
(* subcommands build over a message, the duplicates check, and the         *)
(* command handlers with the host calls they make.                         *)
(*                                                                         *)
(* Four specifications share the module:                                   *)
(*   SpecPred  one predicate closure evaluated on one message while the    *)
(*             clock advances;                                             *)
(*   SpecDup   one duplicates scan, message by message;                    *)
(*   Spec      one channel and the command handlers, step by step at      *)
(*             their await points;                                         *)
(*   SpecLife  the cog's construction, its background initialization task, *)
(*             loading, invocations and unloading.                         *)
(***************************************************************************)
EXTENDS Integers, Sequences, FiniteSets, TLC

\* The fields of the records of this module.  TLC keeps the fields of a
\* record in the order in which it first met their names; every record below
\* is written in this order.
Fields ==
    [ some |-> "Optional: a value is present",
      val |-> "Optional: the value",
      id |-> "message.id",
      author |-> "message.author",
      content |-> "message.content",
      webhook |-> "message.webhook_id is not None",
      interaction |-> "message.interaction is not None",
      bot |-> "flags.bot",
      webhooks |-> "flags.webhooks",
      embeds |-> "message.embeds, flags.embeds",
      attachments |-> "len(message.attachments)",
      stickers |-> "message.stickers",
      files |-> "flags.files",
      reactions |-> "number of reactions, flags.reactions",
      pinned |-> "message.pinned",
      created_at |-> "message.created_at, in days",
      emoji |-> "flags.emoji",
      user |-> "flags.user",
      contains |-> "flags.contains",
      prefix |-> "flags.prefix",
      suffix |-> "flags.suffix",
      require |-> "flags.require",
      kind |-> "closure: the subcommand that built it",
      arg |-> "closure: captured pattern, text or prefix",
      member |-> "closure: captured member",
      flags |-> "closure: captured PurgeFlags",
      cmd |-> "invocation: subcommand",
      raw |-> "invocation: the number as typed",
      number |-> "invocation: the number after conversion and defaults",
      mode |-> "invocation: the closure",
      id1 |-> "invocation: message_id / one",
      id2 |-> "invocation: two",
      ref |-> "invocation: ctx.message.reference",
      delete_pinned |-> "invocation: delete_pinned",
      op |-> "host call: which",
      ok |-> "host call: it returned rather than raised",
      count |-> "host call: number or limit of a history scan",
      msgs |-> "host call: messages handed over",
      text |-> "host call: message sent; invocation: text argument",
      after |-> "lower bound of a scan",
      before |-> "upper bound of a scan",
      at |-> "evaluation: clock reading",
      res |-> "evaluation: result",
      subs |-> "evaluation: results of the sub-predicates",
      ret |-> "check(): return value",
      messages |-> "check(): list messages",
      spam |-> "check(): list spam",
      bound |-> "resolution: the boundary message",
      returned |-> "resolution: the handler returned",
      made |-> "resolution: host calls made" ]

VARIABLES
    now,        \* datetime.utcnow(), in days
    pm,         \* SpecPred: the message the predicate is evaluated on
    pmode,      \* SpecPred: the predicate closure (mode and captured arguments)
    evals,      \* SpecPred: the evaluations made so far
    scanned,    \* SpecDup: the messages check() has been called on, in scan order
    messages,   \* SpecDup: _duplicates' list `messages` (fingerprints seen)
    spam,       \* SpecDup: _duplicates' list `spam`
    rets,       \* SpecDup: what check() returned for each scanned message
    chan,       \* Spec: the channel's messages before the command message, oldest first
    pc,         \* Spec: where the running handler is
    ctx,        \* Spec: the invocation: command, converted arguments, closure
    scan,       \* Spec: what the history scan returned (message ids)
    to_delete,  \* Spec: the handler's list to_delete (message ids)
    calls,      \* Spec: the host calls the invocation has made, in order
    cog,        \* SpecLife: the cog: "none", "constructed", "loaded", "unloaded"
    task,       \* SpecLife: self.task: where _initialize is, or how it ended
    cancelling, \* SpecLife: self.task.cancel() was called on the unfinished task
    exc,        \* SpecLife: type of the exception register_casetype raised
    callback,   \* SpecLife: _task_done_callback: "pending" or "ran"
    logged,     \* SpecLife: log.exception records: the load each belongs to
    escaped,    \* SpecLife: an exception left _task_done_callback
    invoked,    \* SpecLife: the commands invoked: the task's state at each
    ready,      \* SpecLife: the bot is ready (wait_until_red_ready returns)
    registered, \* SpecLife: modlog already holds the "purge" case type
    loads       \* SpecLife: how many times the cog was constructed

predVars == <<pm, pmode, evals>>
dupVars == <<scanned, messages, spam, rets>>
cmdVars == <<chan, pc, ctx, scan, to_delete, calls>>
lifeVars == <<cog, task, cancelling, exc, callback, logged, escaped, invoked,
              ready, registered, loads>>
vars == <<now, pm, pmode, evals, scanned, messages, spam, rets,
          chan, pc, ctx, scan, to_delete, calls,
          cog, task, cancelling, exc, callback, logged, escaped, invoked,
          ready, registered, loads>>

----------------------------------------------------------------------------
(* Bounds of the model *)

MaxTick == 2        \* how far the clock advances past its start, in days
MaxEvals == 2       \* evaluations of one predicate closure
MaxScan == 3        \* messages in one duplicates scan
MaxHist == 3        \* messages in the channel before the command message
MaxLoads == 2       \* constructions of the cog
MaxInvoke == 2      \* command invocations

(* Program constants *)

Horizon == 14       \* timedelta(days=14)
MinText == 3        \* len(text) < 3
RangeMin == 1       \* commands.Range[int, 1, 2000]
RangeMax == 2000
DefaultNumber == 100
DefaultDuplicates == 50
ContainsNumber == 100
CustomAfterNumber == 2000
CustomNumber == 100

----------------------------------------------------------------------------
(* Python values *)

\* Optional[T]: None, or a value
None == [some |-> FALSE, val |-> <<>>]
Some(v) == [some |-> TRUE, val |-> v]

\* str.startswith, str.endswith, the `in` operator on str; strings are
\* sequences of characters
StartsWith(s, p) == Len(p) <= Len(s) /\ SubSeq(s, 1, Len(p)) = p
EndsWith(s, p) == Len(p) <= Len(s) /\ SubSeq(s, Len(s) - Len(p) + 1, Len(s)) = p
Contains(s, p) == \E i \in 1..(Len(s) - Len(p) + 1) : SubSeq(s, i, i + Len(p) - 1) = p

\* truthiness of an Optional[str]: None and "" are falsy
TruthyStr(o) == o.some /\ Len(o.val) > 0

----------------------------------------------------------------------------
(* Messages *)

CtxAuthor == "ann"      \* ctx.author
Me == "red"             \* ctx.guild.me
Authors == {"ann", "hook", "red"}
\* author.bot
IsBot(a) == a \in {"hook", "red"}

\* Characters: "E" stands for a custom-emoji token, "L" for a link
Contents == { <<>>, <<"h", "i">>, <<"?", "h", "i">>, <<"E", "L">> }

\* A message as the predicates see it.  webhook: webhook_id is not None;
\* interaction: interaction is not None; created_at in days.
Message(id, author, content, webhook, interaction, embeds, attachments, stickers, reactions, pinned, created) ==
    [id |-> id, author |-> author, content |-> content, webhook |-> webhook,
     interaction |-> interaction, embeds |-> embeds, attachments |-> attachments,
     stickers |-> stickers, reactions |-> reactions, pinned |-> pinned,
     created_at |-> created]

----------------------------------------------------------------------------
(* Regular expressions of .utils, by what the design says they find *)

CustomEmojiSearch(content) == Contains(content, <<"E">>)
LinksSearch(content) == Contains(content, <<"L">>)

\* rf"{pattern}": the pattern text; a pattern of None formats as "None"
PatternText(pattern) == IF pattern.some THEN pattern.val ELSE <<"N", "o", "n", "e">>
\* re.match of a literal pattern: the content begins with it
ReMatch(text, content) == StartsWith(content, text)

----------------------------------------------------------------------------
(* The predicates of the subcommands; t is datetime.utcnow() at the call *)

WithinHorizon_Reversed(m, t) == m.created_at < t - Horizon

\* date = datetime.utcnow() - timedelta(days=14); message.created_at > date
WithinHorizon(m, t) == m.created_at > t - Horizon

PurgeCheck(m, t) == WithinHorizon(m, t)

EmbedsPred(m) == Len(m.embeds) > 0

RegexCheck(pattern, m, t) ==
    ReMatch(PatternText(pattern), m.content) /\ WithinHorizon(m, t)

FilesPred(m) == m.attachments > 0

ImagesPred(m) == Len(m.embeds) > 0 \/ m.attachments > 0

UserPred(member, m) == m.author = member

ContainsPred(text, m) == Contains(m.content, text)

BotPredicate_NoAge(prefix, m, t) ==
    (~m.webhook /\ IsBot(m.author))
        \/ (TruthyStr(prefix) /\ StartsWith(m.content, prefix.val))

BotPredicate(prefix, m, t) ==
    ( (~m.webhook /\ IsBot(m.author))
        \/ (TruthyStr(prefix) /\ StartsWith(m.content, prefix.val)) )
    /\ WithinHorizon(m, t)

EmojiPredicate(m, t) == CustomEmojiSearch(m.content) /\ WithinHorizon(m, t)

SelfPred(m) == m.author = CtxAuthor

MinePred(m) == m.author = Me

LinksPred(m) == LinksSearch(m.content)

----------------------------------------------------------------------------
(* custom: the list `predicates` as a list of tags, in the order appended *)

OriginPredicates_BotOnly(flags) ==
    IF flags.bot THEN <<"bot">>
    ELSE IF flags.webhooks THEN <<"webhook">> ELSE <<>>

OriginPredicates(flags) ==
    IF flags.bot
        THEN IF flags.webhooks THEN <<"bot">> ELSE <<"bot_not_webhook">>
    ELSE IF flags.webhooks THEN <<"webhook">> ELSE <<>>

Predicates(flags) ==
    OriginPredicates(flags)
    \o (IF flags.embeds THEN <<"embeds">> ELSE <<>>)
    \o (IF flags.files THEN <<"files">> ELSE <<>>)
    \o (IF flags.reactions THEN <<"reactions">> ELSE <<>>)
    \o (IF flags.emoji THEN <<"emoji">> ELSE <<>>)
    \o (IF flags.user.some THEN <<"user">> ELSE <<>>)
    \o (IF TruthyStr(flags.contains) THEN <<"contains">> ELSE <<>>)
    \o (IF TruthyStr(flags.prefix) THEN <<"prefix">> ELSE <<>>)
    \o (IF TruthyStr(flags.suffix) THEN <<"suffix">> ELSE <<>>)

\* the truth value of one appended lambda on m
SubPredicate(tag, flags, m) ==
    CASE tag = "bot" -> IsBot(m.author)
      [] tag = "bot_not_webhook" -> (~m.webhook \/ m.interaction) /\ IsBot(m.author)
      [] tag = "webhook" -> m.webhook
      [] tag = "embeds" -> Len(m.embeds) > 0
      [] tag = "files" -> m.attachments > 0
      [] tag = "reactions" -> m.reactions > 0
      [] tag = "emoji" -> CustomEmojiSearch(m.content)
      [] tag = "user" -> m.author = flags.user.val
      [] tag = "contains" -> Contains(m.content, flags.contains.val)
      [] tag = "prefix" -> StartsWith(m.content, flags.prefix.val)
      [] tag = "suffix" -> EndsWith(m.content, flags.suffix.val)

SubResults(flags, m) ==
    [i \in 1..Len(Predicates(flags)) |-> SubPredicate(Predicates(flags)[i], flags, m)]

CustomPredicate_AlwaysAny(flags, m) ==
    \E i \in 1..Len(SubResults(flags, m)) : SubResults(flags, m)[i]

\* op(p(m) for p in predicates), op = all if flags.require == "all" else any
CustomPredicate(flags, m) ==
    LET rs == SubResults(flags, m)
    IN  IF flags.require = "all"
            THEN \A i \in 1..Len(rs) : rs[i]
            ELSE \E i \in 1..Len(rs) : rs[i]

\* A predicate closure: the mode and the arguments it captured
Mode(kind, arg, member, flags) ==
    [kind |-> kind, arg |-> arg, member |-> member, flags |-> flags]

NoFlags ==
    [bot |-> FALSE, webhooks |-> FALSE, embeds |-> FALSE, files |-> FALSE,
     reactions |-> FALSE, emoji |-> FALSE, user |-> None, contains |-> None,
     prefix |-> None, suffix |-> None, require |-> "none",
     after |-> 0, before |-> 0]

\* Calling the closure on m at time t
Pred(mode, m, t) ==
    CASE mode.kind = "purge" -> PurgeCheck(m, t)
      [] mode.kind = "embeds" -> EmbedsPred(m)
      [] mode.kind = "regex" -> RegexCheck(mode.arg, m, t)
      [] mode.kind = "files" -> FilesPred(m)
      [] mode.kind = "images" -> ImagesPred(m)
      [] mode.kind = "user" -> UserPred(mode.member, m)
      [] mode.kind = "contains" -> ContainsPred(mode.arg.val, m)
      [] mode.kind = "bot" -> BotPredicate(mode.arg, m, t)
      [] mode.kind = "emoji" -> EmojiPredicate(m, t)
      [] mode.kind = "self" -> SelfPred(m)
      [] mode.kind = "mine" -> MinePred(m)
      [] mode.kind = "links" -> LinksPred(m)
      [] mode.kind = "custom" -> CustomPredicate(mode.flags, m)

\* The modes whose closure reads datetime.utcnow()
AgeModes == {"purge", "regex", "bot", "emoji"}

----------------------------------------------------------------------------
(* The state of an invocation *)

\* Optional[int]
NoInt == [some |-> FALSE, val |-> 0]
SomeInt(n) == [some |-> TRUE, val |-> n]

IdleCtx ==
    [cmd |-> "none", raw |-> NoInt, number |-> NoInt,
     mode |-> Mode("none", None, CtxAuthor, NoFlags),
     id1 |-> 0, id2 |-> 0, ref |-> 0, delete_pinned |-> FALSE, text |-> <<>>,
     after |-> 0, before |-> 0]

IdleCmd ==
    /\ chan = <<>>
    /\ pc = "idle"
    /\ ctx = IdleCtx
    /\ scan = <<>>
    /\ to_delete = <<>>
    /\ calls = <<>>

\* the cog loaded, its initialization task finished without an exception
IdleLife ==
    /\ cog = "loaded"
    /\ task = "finished"
    /\ cancelling = FALSE
    /\ exc = "none"
    /\ callback = "ran"
    /\ logged = <<>>
    /\ escaped = FALSE
    /\ invoked = <<>>
    /\ ready = TRUE
    /\ registered = TRUE
    /\ loads = 1

----------------------------------------------------------------------------
(* SpecPred: one closure, one message, the clock *)

\* The clock starts at day Horizon, so that a message created on day 0 is
\* already past the horizon and one created on day d passes it after d days.
StartNow == Horizon
CreatedDays == 0..MaxTick

PredMessages ==
    { Message(1, a, c, w, i, e, f, <<>>, r, FALSE, d) :
        a \in Authors, c \in Contents, w \in BOOLEAN, i \in BOOLEAN,
        e \in {<<>>, <<"embed">>}, f \in {0, 1}, r \in {0, 1}, d \in CreatedDays }

OriginFlags ==
    { [NoFlags EXCEPT !.bot = b, !.webhooks = w, !.embeds = e, !.require = q] :
        b \in BOOLEAN, w \in BOOLEAN, e \in BOOLEAN, q \in {"none", "any", "all"} }

PredModes ==
    { Mode(k, None, CtxAuthor, NoFlags) :
        k \in {"purge", "embeds", "files", "images", "emoji", "self", "mine", "links"} }
    \cup { Mode("regex", p, CtxAuthor, NoFlags) : p \in {None, Some(<<"h">>)} }
    \cup { Mode("user", None, a, NoFlags) : a \in {"ann", "hook"} }
    \cup { Mode("contains", Some(<<"?", "h", "i">>), CtxAuthor, NoFlags) }
    \cup { Mode("bot", p, CtxAuthor, NoFlags) : p \in {None, Some(<<>>), Some(<<"?">>)} }
    \cup { Mode("custom", None, CtxAuthor, f) : f \in OriginFlags }

IdlePred ==
    /\ pm = Message(0, CtxAuthor, <<>>, FALSE, FALSE, <<>>, 0, <<>>, 0, FALSE, 0)
    /\ pmode = Mode("none", None, CtxAuthor, NoFlags)
    /\ evals = <<>>

IdleDup ==
    /\ scanned = <<>>
    /\ messages = <<>>
    /\ spam = <<>>
    /\ rets = <<>>

InitPred ==
    /\ now = StartNow
    /\ IdleLife
    /\ pm \in PredMessages
    /\ pmode \in PredModes
    /\ evals = <<>>
    /\ IdleDup
    /\ IdleCmd

\* time passes
Tick ==
    /\ now < StartNow + MaxTick
    /\ now' = now + 1
    /\ UNCHANGED <<lifeVars, predVars, dupVars, cmdVars>>

\* the scanner calls the closure on the message
Evaluate ==
    /\ Len(evals) < MaxEvals
    /\ evals' = Append(evals,
                  [at |-> now,
                   res |-> Pred(pmode, pm, now),
                   subs |-> IF pmode.kind = "custom"
                              THEN SubResults(pmode.flags, pm) ELSE <<>>])
    /\ UNCHANGED <<now, lifeVars, pm, pmode, dupVars, cmdVars>>

NextPred == Tick \/ Evaluate

SpecPred == InitPred /\ [][NextPred]_vars

----------------------------------------------------------------------------
(* Claims about the predicates *)

\* C1 (as amended): in custom, with bot and webhooks both set the origin
\* sub-predicate is true of a message exactly when its author is a bot; with
\* bot alone it is true exactly when the author is a bot and the message is
\* either not webhook-originated or interaction-originated.
C1_OriginSubPredicate ==
    \A i \in 1..Len(evals) :
        (pmode.kind = "custom" /\ pmode.flags.bot) =>
            evals[i].subs[1] =
                IF pmode.flags.webhooks
                    THEN IsBot(pm.author)
                    ELSE IsBot(pm.author) /\ (~pm.webhook \/ pm.interaction)

\* C1 witness: bot alone, a webhook message of a bot without interaction
\* origin was evaluated and not matched.
C1_Witness ==
    /\ pmode.kind = "custom" /\ pmode.flags.bot /\ ~pmode.flags.webhooks
    /\ pm.webhook /\ ~pm.interaction /\ IsBot(pm.author)
    /\ Len(evals) > 0 /\ ~evals[1].subs[1]

\* C1 as stated: with bot alone no webhook-originated and no
\* interaction-originated message is matched.
C1_Original ==
    \A i \in 1..Len(evals) :
        (pmode.kind = "custom" /\ pmode.flags.bot) =>
            IF pmode.flags.webhooks
                THEN evals[i].subs[1] = IsBot(pm.author)
                ELSE (pm.webhook \/ pm.interaction) => ~evals[i].subs[1]

\* C8 (as amended): two evaluations of one closure on one message agree for
\* the modes that do not read the clock; for purge, regex, bot and emoji they
\* agree when made at the same clock reading, and as time passes a match can
\* only turn into a non-match.
C8_PurityUpToClock ==
    \A i, j \in 1..Len(evals) :
        i < j =>
            /\ pmode.kind \notin AgeModes => evals[i].res = evals[j].res
            /\ pmode.kind \in AgeModes =>
                /\ evals[j].res => evals[i].res
                /\ evals[i].at = evals[j].at => evals[i].res = evals[j].res

\* C8 witness: an age-checking closure matched a message and, evaluated
\* again later on the same message, did not.
C8_Witness ==
    /\ pmode.kind \in AgeModes
    /\ Len(evals) = 2
    /\ evals[1].at < evals[2].at
    /\ evals[1].res /\ ~evals[2].res

\* C8 as stated: two evaluations on the same message always agree.
C8_Original ==
    \A i, j \in 1..Len(evals) : evals[i].res = evals[j].res

\* C10 (as amended): the bot predicate is true of a message exactly when
\* ((it has no webhook origin and its author is a bot) or (a non-empty prefix
\* was supplied and the content starts with it)) and it is younger than the
\* horizon; an interaction origin plays no part.
C10_BotPredicate ==
    \A i \in 1..Len(evals) :
        pmode.kind = "bot" =>
            evals[i].res =
                ( /\ \/ ~pm.webhook /\ IsBot(pm.author)
                     \/ /\ pmode.arg.some /\ pmode.arg.val # <<>>
                        /\ StartsWith(pm.content, pmode.arg.val)
                  /\ pm.created_at > evals[i].at - Horizon )

\* C10 witness: a bot's message with an interaction origin and no webhook
\* origin, within the horizon, was matched with no prefix supplied.
C10_Witness ==
    /\ pmode.kind = "bot" /\ ~pmode.arg.some
    /\ ~pm.webhook /\ pm.interaction /\ IsBot(pm.author)
    /\ Len(evals) > 0 /\ evals[1].res

\* C10 as stated: the first disjunct also requires no interaction origin.
C10_Original ==
    \A i \in 1..Len(evals) :
        pmode.kind = "bot" =>
            evals[i].res =
                ( /\ \/ ~pm.webhook /\ ~pm.interaction /\ IsBot(pm.author)
                     \/ /\ pmode.arg.some /\ pmode.arg.val # <<>>
                        /\ StartsWith(pm.content, pmode.arg.val)
                  /\ pm.created_at > evals[i].at - Horizon )

----------------------------------------------------------------------------
(* SpecDup: the check of _duplicates, called on the scanned messages in turn *)

\* content = (m.author.id, m.content, [embed.to_dict() ...], [sticker.id ...])
Fingerprint(m) == <<m.author, m.content, m.embeds, m.stickers>>

InList(x, list) == \E k \in 1..Len(list) : list[k] = x

DupCheck_NoAttachmentGuard(m, seen, sp) ==
    IF InList(Fingerprint(m), seen)
        THEN [ret |-> TRUE, messages |-> seen, spam |-> Append(sp, m)]
        ELSE [ret |-> FALSE, messages |-> Append(seen, Fingerprint(m)), spam |-> sp]

\* check(m) with the lists `messages` and `spam` as they are before the call:
\* what it returns and the lists after it
DupCheck(m, seen, sp) ==
    IF m.attachments > 0
        THEN [ret |-> FALSE, messages |-> seen, spam |-> sp]
    ELSE IF InList(Fingerprint(m), seen)
        THEN [ret |-> TRUE, messages |-> seen, spam |-> Append(sp, m)]
        ELSE [ret |-> FALSE, messages |-> Append(seen, Fingerprint(m)), spam |-> sp]

DupMessages ==
    { Message(0, a, c, FALSE, FALSE, e, f, s, 0, FALSE, MaxTick) :
        a \in {"ann", "hook"}, c \in {<<>>, <<"h", "i">>},
        e \in {<<>>, <<"embed">>}, f \in {0, 1}, s \in {<<>>, <<"sticker">>} }

InitDup ==
    /\ now = StartNow
    /\ IdleLife
    /\ IdlePred
    /\ IdleDup
    /\ IdleCmd

\* the scanner hands the next message of the history to check()
DupStep ==
    /\ Len(scanned) < MaxScan
    /\ \E m \in DupMessages :
        LET r == DupCheck(m, messages, spam)
        IN  /\ scanned' = Append(scanned, m)
            /\ messages' = r.messages
            /\ spam' = r.spam
            /\ rets' = Append(rets, r.ret)
    /\ UNCHANGED <<now, lifeVars, predVars, cmdVars>>

NextDup == DupStep

SpecDup == InitDup /\ [][NextDup]_vars

\* C4 (as amended): check() returns true for a scanned message exactly when
\* it has no attachments and an earlier-scanned message without attachments
\* had the same fingerprint; messages with attachments are never matched and
\* never counted as a first occurrence.
C4_Duplicates ==
    \A i \in 1..Len(scanned) :
        rets[i] =
            ( /\ scanned[i].attachments = 0
              /\ \E j \in 1..(i - 1) :
                    /\ scanned[j].attachments = 0
                    /\ Fingerprint(scanned[j]) = Fingerprint(scanned[i]) )

\* C4 witness: a later occurrence of a fingerprint was matched while the
\* first occurrence was not.
C4_Witness ==
    /\ Len(scanned) >= 2
    /\ Fingerprint(scanned[1]) = Fingerprint(scanned[2])
    /\ ~rets[1] /\ rets[2]
    /\ spam = <<scanned[2]>>

\* C4 as stated: true exactly when an earlier-scanned message had the same
\* fingerprint.
C4_Original ==
    \A i \in 1..Len(scanned) :
        rets[i] =
            (\E j \in 1..(i - 1) : Fingerprint(scanned[j]) = Fingerprint(scanned[i]))

----------------------------------------------------------------------------
(* The host calls of an invocation, as logged in `calls` *)

\* op: "fetch_message", "reference", "history", "case", "purge",
\* "clear_reactions", "send"; ok: the call returned (FALSE: it raised);
\* count: the number or limit a history scan was given; msgs: the messages
\* handed over; text: which message was sent
Call(op, ok, count, msgs, text) ==
    [op |-> op, ok |-> ok, count |-> count, msgs |-> msgs, text |-> text]

CallsOf(op) == { k \in 1..Len(calls) : calls[k].op = op }

----------------------------------------------------------------------------
(* The scanner of .utils (get_messages_for_deletion), by the design's rules *)

Reverse(seq) == [k \in 1..Len(seq) |-> seq[Len(seq) + 1 - k]]
FirstN(seq, n) == SubSeq(seq, 1, IF n < Len(seq) THEN n ELSE Len(seq))
Ids(seq) == [k \in 1..Len(seq) |-> seq[k].id]

\* the matches of a duplicates scan: check() called on each message in turn
RECURSIVE DupScan(_, _)
DupScan(seq, seen) ==
    IF seq = <<>> THEN <<>>
    ELSE LET r == DupCheck(Head(seq), seen, <<>>)
         IN  (IF r.ret THEN <<Head(seq)>> ELSE <<>>) \o DupScan(Tail(seq), r.messages)

\* hist: the messages the channel holds, oldest first.  before, after: ids
\* of the bounds, 0 for none.  number: cap on the matches; limit: cap on the
\* messages inspected.  The messages strictly between the bounds are
\* inspected (oldest first when a lower bound is given, else newest first),
\* tested with the closure, and kept when within the horizon and, unless
\* delete_pinned, not pinned.
GetMessagesForDeletion(hist, number, limit, mode, before, after, delete_pinned, t) ==
    LET InRange(m) == (after = 0 \/ m.id > after) /\ (before = 0 \/ m.id < before)
        ordered == IF after # 0 THEN hist ELSE Reverse(hist)
        cand == SelectSeq(ordered, InRange)
        inspected == IF limit.some THEN FirstN(cand, limit.val) ELSE cand
        Check(m) == mode.kind = "all" \/ Pred(mode, m, t)
        matched == IF mode.kind = "duplicates"
                     THEN DupScan(inspected, <<>>)
                     ELSE SelectSeq(inspected, Check)
        Keep(m) == WithinHorizon(m, t) /\ (delete_pinned \/ ~m.pinned)
        kept == SelectSeq(matched, Keep)
    IN  Ids(IF number.some THEN FirstN(kept, number.val) ELSE kept)

----------------------------------------------------------------------------
(* Spec: a channel and the command handlers *)

\* The messages a channel is filled from; created on day 0 (past the
\* horizon at StartNow) or on day MaxTick (within it)
Shape(author, content, attachments, pinned, created) ==
    Message(0, author, content, author = "hook", FALSE, <<>>, attachments,
            <<>>, attachments, pinned, created)

Shapes ==
    { Shape("ann", <<"h", "i">>, 0, FALSE, MaxTick),
      Shape("ann", <<"h", "i">>, 1, FALSE, MaxTick),
      Shape("hook", <<"?", "h", "i">>, 0, TRUE, MaxTick),
      Shape("ann", <<"h", "i">>, 0, FALSE, 0) }

\* ids grow with time: position k holds id k, and creation days do not decrease
ChannelsOfLen(n) ==
    { [k \in 1..n |-> [f[k] EXCEPT !.id = k]] :
        f \in { g \in [1..n -> Shapes] :
                  \A k \in 1..(n - 1) : g[k].created_at <= g[k + 1].created_at } }

Channels == UNION { ChannelsOfLen(n) : n \in 0..MaxHist }

\* ctx.message: the message that invoked the command, newest in the channel
CmdId == Len(chan) + 1
CtxMessage ==
    Message(CmdId, CtxAuthor, <<"!">>, FALSE, FALSE, <<>>, 0, <<>>, 0, FALSE,
            StartNow + MaxTick)

\* channel.fetch_message(id) finds the message or raises NotFound
Exists(id) == id \in 1..Len(chan)

\* message ids a user may give: 0 for none, a message of the channel, or
\* an id no message has
IdArgs == (0..Len(chan)) \cup {Len(chan) + 2}

RawCounts ==
    {NoInt} \cup { SomeInt(n) : n \in {RangeMin - 1, RangeMin, RangeMin + 1,
                                         RangeMax, RangeMax + 1} }

RangeConvert_NoCheck(n) == SomeInt(n)

\* commands.Range[int, 1, 2000] on a supplied number: the number, or no value
\* when the conversion raises
RangeConvert(n) == IF RangeMin <= n /\ n <= RangeMax THEN SomeInt(n) ELSE NoInt

InitCmd ==
    /\ now = StartNow
    /\ IdleLife
    /\ IdlePred
    /\ IdleDup
    /\ chan \in Channels
    /\ pc = "idle"
    /\ ctx = IdleCtx
    /\ scan = <<>>
    /\ to_delete = <<>>
    /\ calls = <<>>

\* A command whose only converted argument is `number` with a default: the
\* framework converts it and enters the handler, or rejects the invocation
CountCommand(c, default, mode, first) ==
    /\ pc = "idle"
    /\ \E raw \in RawCounts :
        LET number == IF raw.some THEN RangeConvert(raw.val) ELSE SomeInt(default)
        IN  IF number.some
              THEN /\ ctx' = [IdleCtx EXCEPT !.cmd = c, !.raw = raw,
                                             !.number = number, !.mode = mode]
                   /\ pc' = first
              ELSE /\ ctx' = [IdleCtx EXCEPT !.cmd = c, !.raw = raw]
                   /\ pc' = "rejected"
    /\ UNCHANGED <<now, lifeVars, predVars, dupVars, chan, scan, to_delete, calls>>

PurgeCmd == CountCommand("purge", DefaultNumber, Mode("purge", None, CtxAuthor, NoFlags), "cleanup")

EmbedsCmd == CountCommand("embeds", DefaultNumber, Mode("embeds", None, CtxAuthor, NoFlags), "cleanup")

RegexCmd ==
    \E p \in {None, Some(<<"h">>)} :
        CountCommand("regex", DefaultNumber, Mode("regex", p, CtxAuthor, NoFlags), "cleanup")

FilesCmd == CountCommand("files", DefaultNumber, Mode("files", None, CtxAuthor, NoFlags), "cleanup")

ImagesCmd == CountCommand("images", DefaultNumber, Mode("images", None, CtxAuthor, NoFlags), "cleanup")

UserCmd ==
    \E member \in {"ann", "hook"} :
        CountCommand("user", DefaultNumber, Mode("user", None, member, NoFlags), "cleanup")

Texts == { <<"h">>, <<"h", "i">>, <<"?", "h", "i">>, <<"?", "h", "i", "!">> }

ContainsCmd_OffByOne ==
    /\ pc = "idle"
    /\ \E text \in Texts :
        IF Len(text) < MinText - 1
          THEN /\ ctx' = [IdleCtx EXCEPT !.cmd = "contains", !.text = text]
               /\ calls' = <<Call("send", TRUE, NoInt, <<>>, "too_short")>>
               /\ pc' = "done"
          ELSE /\ ctx' = [IdleCtx EXCEPT !.cmd = "contains", !.text = text,
                            !.number = SomeInt(ContainsNumber),
                            !.mode = Mode("contains", Some(text), CtxAuthor, NoFlags)]
               /\ calls' = calls
               /\ pc' = "cleanup"
    /\ UNCHANGED <<now, lifeVars, predVars, dupVars, chan, scan, to_delete>>

ContainsCmd ==
    /\ pc = "idle"
    /\ \E text \in Texts :
        IF Len(text) < MinText
          THEN /\ ctx' = [IdleCtx EXCEPT !.cmd = "contains", !.text = text]
               /\ calls' = <<Call("send", TRUE, NoInt, <<>>, "too_short")>>
               /\ pc' = "done"
          ELSE /\ ctx' = [IdleCtx EXCEPT !.cmd = "contains", !.text = text,
                            !.number = SomeInt(ContainsNumber),
                            !.mode = Mode("contains", Some(text), CtxAuthor, NoFlags)]
               /\ calls' = calls
               /\ pc' = "cleanup"
    /\ UNCHANGED <<now, lifeVars, predVars, dupVars, chan, scan, to_delete>>

BotCmd ==
    \E prefix \in {None, Some(<<"?">>)} :
        CountCommand("bot", DefaultNumber, Mode("bot", prefix, CtxAuthor, NoFlags), "cleanup")

EmojiCmd == CountCommand("emoji", DefaultNumber, Mode("emoji", None, CtxAuthor, NoFlags), "cleanup")

ReactionsCmd == CountCommand("reactions", DefaultNumber, Mode("all", None, CtxAuthor, NoFlags), "reactions")

\* the loop over ctx.history(limit=number, before=ctx.message) and the reply
ReactionsRun ==
    /\ pc = "reactions"
    /\ LET inspected == FirstN(Reverse(chan), ctx.number.val)
           HasReactions(m) == m.reactions > 0
           cleared == SelectSeq(inspected, HasReactions)
       IN  calls' = <<Call("history", TRUE, ctx.number, <<>>, "")>>
                    \o [k \in 1..Len(cleared) |->
                          Call("clear_reactions", TRUE, NoInt, <<cleared[k].id>>, "")]
                    \o <<Call("send", TRUE, NoInt, <<>>, "reactions")>>
    /\ pc' = "done"
    /\ UNCHANGED <<now, lifeVars, predVars, dupVars, chan, ctx, scan, to_delete>>

SelfCmd == CountCommand("self", DefaultNumber, Mode("self", None, CtxAuthor, NoFlags), "cleanup")

MineCmd == CountCommand("mine", DefaultNumber, Mode("mine", None, CtxAuthor, NoFlags), "cleanup")

LinksCmd == CountCommand("links", DefaultNumber, Mode("links", None, CtxAuthor, NoFlags), "cleanup")

----------------------------------------------------------------------------
(* after, before, between *)

AfterCmd ==
    /\ pc = "idle"
    /\ \E id \in IdArgs, ref \in IdArgs, dp \in BOOLEAN :
        ctx' = [IdleCtx EXCEPT !.cmd = "after", !.id1 = id, !.ref = ref,
                               !.delete_pinned = dp]
    /\ pc' = "resolve"
    /\ UNCHANGED <<now, lifeVars, predVars, dupVars, chan, scan, to_delete, calls>>

\* Resolving one boundary message from message_id or the reply reference:
\* the boundary's id (0 for None), the calls made, and whether the handler
\* returned
Resolve(id, ref) ==
    IF id # 0
      THEN IF Exists(id)
             THEN [bound |-> id, returned |-> FALSE,
                   made |-> <<Call("fetch_message", TRUE, NoInt, <<id>>, "")>>]
             ELSE [bound |-> 0, returned |-> TRUE,
                   made |-> <<Call("fetch_message", FALSE, NoInt, <<id>>, ""),
                              Call("send", TRUE, NoInt, <<>>, "not_found")>>]
    ELSE LET found == IF ref # 0 /\ Exists(ref) THEN ref ELSE 0
             looked == IF ref # 0
                         THEN <<Call("reference", TRUE, NoInt, <<ref>>, "")>>
                         ELSE <<>>
         IN  IF found = 0
               THEN [bound |-> 0, returned |-> TRUE,
                     made |-> looked \o <<Call("send", TRUE, NoInt, <<>>, "could_not_find")>>]
               ELSE [bound |-> found, returned |-> FALSE, made |-> looked]

AfterResolve ==
    /\ pc = "resolve" /\ ctx.cmd = "after"
    /\ LET r == Resolve(ctx.id1, ctx.ref)
       IN  /\ ctx' = [ctx EXCEPT !.after = r.bound]
           /\ calls' = calls \o r.made
           /\ pc' = IF r.returned THEN "done" ELSE "scan"
    /\ UNCHANGED <<now, lifeVars, predVars, dupVars, chan, scan, to_delete>>

\* the history may or may not still hold the command message
AfterScan ==
    /\ pc = "scan" /\ ctx.cmd = "after"
    /\ \E visible \in BOOLEAN :
        LET hist == IF visible THEN Append(chan, CtxMessage) ELSE chan
            found == GetMessagesForDeletion(hist, NoInt, NoInt,
                        Mode("all", None, CtxAuthor, NoFlags),
                        0, ctx.after, ctx.delete_pinned, now)
        IN  /\ scan' = found
            /\ to_delete' = found
    /\ calls' = Append(calls, Call("history", TRUE, NoInt, <<>>, ""))
    /\ pc' = "case"
    /\ UNCHANGED <<now, lifeVars, predVars, dupVars, chan, ctx>>

BeforeCmd ==
    /\ pc = "idle"
    /\ \E id \in IdArgs, ref \in IdArgs, dp \in BOOLEAN, raw \in RawCounts \ {NoInt} :
        LET number == RangeConvert(raw.val)
        IN  IF number.some
              THEN /\ ctx' = [IdleCtx EXCEPT !.cmd = "before", !.id1 = id, !.ref = ref,
                                !.delete_pinned = dp, !.raw = raw, !.number = number]
                   /\ pc' = "resolve"
              ELSE /\ ctx' = [IdleCtx EXCEPT !.cmd = "before", !.raw = raw]
                   /\ pc' = "rejected"
    /\ UNCHANGED <<now, lifeVars, predVars, dupVars, chan, scan, to_delete, calls>>

BeforeResolve ==
    /\ pc = "resolve" /\ ctx.cmd = "before"
    /\ LET r == Resolve(ctx.id1, ctx.ref)
       IN  /\ ctx' = [ctx EXCEPT !.before = r.bound]
           /\ calls' = calls \o r.made
           /\ pc' = IF r.returned THEN "done" ELSE "scan"
    /\ UNCHANGED <<now, lifeVars, predVars, dupVars, chan, scan, to_delete>>

BeforeScan_NoAppend ==
    /\ pc = "scan" /\ ctx.cmd = "before"
    /\ LET found == GetMessagesForDeletion(chan, ctx.number, NoInt,
                        Mode("all", None, CtxAuthor, NoFlags),
                        ctx.before, 0, ctx.delete_pinned, now)
       IN  /\ scan' = found
           /\ to_delete' = found
    /\ calls' = Append(calls, Call("history", TRUE, ctx.number, <<>>, ""))
    /\ pc' = "case"
    /\ UNCHANGED <<now, lifeVars, predVars, dupVars, chan, ctx>>

BeforeScan ==
    /\ pc = "scan" /\ ctx.cmd = "before"
    /\ LET found == GetMessagesForDeletion(chan, ctx.number, NoInt,
                        Mode("all", None, CtxAuthor, NoFlags),
                        ctx.before, 0, ctx.delete_pinned, now)
       IN  /\ scan' = found
           /\ to_delete' = Append(found, CmdId)
    /\ calls' = Append(calls, Call("history", TRUE, ctx.number, <<>>, ""))
    /\ pc' = "case"
    /\ UNCHANGED <<now, lifeVars, predVars, dupVars, chan, ctx>>

BetweenCmd ==
    /\ pc = "idle"
    /\ \E one \in IdArgs \ {0}, two \in IdArgs \ {0}, dp \in BOOLEAN :
        ctx' = [IdleCtx EXCEPT !.cmd = "between", !.id1 = one, !.id2 = two,
                               !.delete_pinned = dp]
    /\ pc' = "resolve"
    /\ UNCHANGED <<now, lifeVars, predVars, dupVars, chan, scan, to_delete, calls>>

BetweenResolveOne_NoReturn ==
    /\ pc = "resolve" /\ ctx.cmd = "between"
    /\ IF Exists(ctx.id1)
         THEN /\ ctx' = [ctx EXCEPT !.after = ctx.id1]
              /\ calls' = Append(calls, Call("fetch_message", TRUE, NoInt, <<ctx.id1>>, ""))
         ELSE /\ ctx' = ctx
              /\ calls' = calls \o <<Call("fetch_message", FALSE, NoInt, <<ctx.id1>>, ""),
                                     Call("send", TRUE, NoInt, <<>>, "not_found")>>
    /\ pc' = "resolve2"
    /\ UNCHANGED <<now, lifeVars, predVars, dupVars, chan, scan, to_delete>>

BetweenResolveOne ==
    /\ pc = "resolve" /\ ctx.cmd = "between"
    /\ IF Exists(ctx.id1)
         THEN /\ ctx' = [ctx EXCEPT !.after = ctx.id1]
              /\ calls' = Append(calls, Call("fetch_message", TRUE, NoInt, <<ctx.id1>>, ""))
              /\ pc' = "resolve2"
         ELSE /\ ctx' = ctx
              /\ calls' = calls \o <<Call("fetch_message", FALSE, NoInt, <<ctx.id1>>, ""),
                                     Call("send", TRUE, NoInt, <<>>, "not_found")>>
              /\ pc' = "done"
    /\ UNCHANGED <<now, lifeVars, predVars, dupVars, chan, scan, to_delete>>

BetweenResolveTwo ==
    /\ pc = "resolve2" /\ ctx.cmd = "between"
    /\ IF Exists(ctx.id2)
         THEN /\ ctx' = [ctx EXCEPT !.before = ctx.id2]
              /\ calls' = Append(calls, Call("fetch_message", TRUE, NoInt, <<ctx.id2>>, ""))
              /\ pc' = "scan"
         ELSE /\ ctx' = ctx
              /\ calls' = calls \o <<Call("fetch_message", FALSE, NoInt, <<ctx.id2>>, ""),
                                     Call("send", TRUE, NoInt, <<>>, "not_found")>>
              /\ pc' = "done"
    /\ UNCHANGED <<now, lifeVars, predVars, dupVars, chan, scan, to_delete>>

BetweenScan ==
    /\ pc = "scan" /\ ctx.cmd = "between"
    /\ LET found == GetMessagesForDeletion(chan, NoInt, NoInt,
                        Mode("all", None, CtxAuthor, NoFlags),
                        ctx.before, ctx.after, ctx.delete_pinned, now)
       IN  /\ scan' = found
           /\ to_delete' = Append(found, CmdId)
    /\ calls' = Append(calls, Call("history", TRUE, NoInt, <<>>, ""))
    /\ pc' = "case"
    /\ UNCHANGED <<now, lifeVars, predVars, dupVars, chan, ctx>>

----------------------------------------------------------------------------
(* duplicates *)

DuplicatesCmd ==
    CountCommand("duplicates", DefaultDuplicates,
                 Mode("duplicates", None, CtxAuthor, NoFlags), "scan")

DuplicatesScan ==
    /\ pc = "scan" /\ ctx.cmd = "duplicates"
    /\ LET found == GetMessagesForDeletion(chan, NoInt, ctx.number, ctx.mode,
                        CmdId, 0, FALSE, now)
       IN  /\ scan' = found
           /\ to_delete' = Append(found, CmdId)
    /\ calls' = Append(calls, Call("history", TRUE, ctx.number, <<>>, ""))
    /\ pc' = "case"
    /\ UNCHANGED <<now, lifeVars, predVars, dupVars, chan, ctx>>

----------------------------------------------------------------------------
(* The tail after, before, between and duplicates share: _create_case,    *)
(* mod.mass_purge, ctx.send; a host call that raises ends the invocation  *)

CreateCase_Skipped ==
    /\ pc = "case"
    /\ pc' = "purge"
    /\ UNCHANGED <<now, lifeVars, predVars, dupVars, chan, ctx, scan, to_delete, calls>>

CreateCase ==
    /\ pc = "case"
    /\ \E ok \in BOOLEAN :
        /\ calls' = Append(calls, Call("case", ok, SomeInt(Len(to_delete)), <<>>, ""))
        /\ pc' = IF ok THEN "purge" ELSE "failed"
    /\ UNCHANGED <<now, lifeVars, predVars, dupVars, chan, ctx, scan, to_delete>>

MassPurge_ContinuesOnFailure ==
    /\ pc = "purge"
    /\ \E ok \in BOOLEAN :
        /\ calls' = Append(calls, Call("purge", ok, NoInt, to_delete, ""))
        /\ pc' = "send"
    /\ UNCHANGED <<now, lifeVars, predVars, dupVars, chan, ctx, scan, to_delete>>

\* await mod.mass_purge(to_delete, ...): it returns, or it raises and the
\* handler ends there
MassPurge ==
    /\ pc = "purge"
    /\ \E ok \in BOOLEAN :
        /\ calls' = Append(calls, Call("purge", ok, NoInt, to_delete, ""))
        /\ pc' = IF ok THEN "send" ELSE "failed"
    /\ UNCHANGED <<now, lifeVars, predVars, dupVars, chan, ctx, scan, to_delete>>

SendConfirmation ==
    /\ pc = "send"
    /\ \E ok \in BOOLEAN :
        /\ calls' = Append(calls, Call("send", ok, SomeInt(Len(to_delete)), <<>>, "deleted"))
        /\ pc' = IF ok THEN "done" ELSE "failed"
    /\ UNCHANGED <<now, lifeVars, predVars, dupVars, chan, ctx, scan, to_delete>>

----------------------------------------------------------------------------
(* custom *)

CustomSamples ==
    { NoFlags,
      [NoFlags EXCEPT !.bot = TRUE],
      [NoFlags EXCEPT !.bot = TRUE, !.webhooks = TRUE, !.require = "all"],
      [NoFlags EXCEPT !.contains = Some(<<"h">>), !.after = 1],
      [NoFlags EXCEPT !.files = TRUE, !.require = "any", !.before = 2],
      [NoFlags EXCEPT !.require = "all"],
      [NoFlags EXCEPT !.files = TRUE, !.contains = Some(<<"h">>), !.require = "all"],
      [NoFlags EXCEPT !.files = TRUE, !.contains = Some(<<"h">>), !.require = "any"],
      [NoFlags EXCEPT !.webhooks = TRUE, !.prefix = Some(<<"h">>)] }

\* number is Optional: a number the range refuses is taken as not given, and
\* the text left over is then parsed with the flags, which may fail
CustomCmd ==
    /\ pc = "idle"
    /\ \E raw \in RawCounts, flags \in CustomSamples, parsed \in BOOLEAN :
        LET given == IF raw.some THEN RangeConvert(raw.val) ELSE NoInt
            number == IF given.some THEN given.val
                      ELSE IF flags.after # 0 THEN CustomAfterNumber
                      ELSE CustomNumber
        IN  IF (raw.some /\ ~given.some) /\ ~parsed
              THEN /\ ctx' = [IdleCtx EXCEPT !.cmd = "custom", !.raw = raw]
                   /\ pc' = "rejected"
              ELSE /\ parsed
                   /\ ctx' = [IdleCtx EXCEPT !.cmd = "custom", !.raw = raw,
                                !.number = SomeInt(number),
                                !.mode = Mode("custom", None, CtxAuthor, flags),
                                !.after = flags.after, !.before = flags.before]
                   /\ pc' = "cleanup"
    /\ UNCHANGED <<now, lifeVars, predVars, dupVars, chan, scan, to_delete, calls>>

----------------------------------------------------------------------------
(* _cleanup of .utils, by the design's rules: scan, then either the        *)
(* "nothing to delete" reply or audit record, bulk delete and confirmation *)

CleanupScan ==
    /\ pc = "cleanup"
    /\ LET found == GetMessagesForDeletion(chan, NoInt, ctx.number, ctx.mode,
                        IF ctx.before # 0 THEN ctx.before ELSE CmdId,
                        ctx.after, TRUE, now)
       IN  /\ scan' = found
           /\ to_delete' = found
           /\ pc' = IF found = <<>> THEN "nothing" ELSE "dispatch"
    /\ calls' = Append(calls, Call("history", TRUE, ctx.number, <<>>, ""))
    /\ UNCHANGED <<now, lifeVars, predVars, dupVars, chan, ctx>>

CleanupNothing ==
    /\ pc = "nothing"
    /\ calls' = Append(calls, Call("send", TRUE, NoInt, <<>>, "nothing"))
    /\ pc' = "done"
    /\ UNCHANGED <<now, lifeVars, predVars, dupVars, chan, ctx, scan, to_delete>>

CleanupDispatch ==
    /\ pc = "dispatch"
    /\ calls' = calls \o <<Call("case", TRUE, SomeInt(Len(to_delete)), <<>>, ""),
                           Call("purge", TRUE, NoInt, to_delete, ""),
                           Call("send", TRUE, SomeInt(Len(to_delete)), <<>>, "deleted")>>
    /\ pc' = "done"
    /\ UNCHANGED <<now, lifeVars, predVars, dupVars, chan, ctx, scan, to_delete>>

\* the invocation is over; the cog waits for the next one
Return ==
    /\ pc \in {"done", "failed", "rejected"}
    /\ pc' = "idle"
    /\ ctx' = IdleCtx
    /\ scan' = <<>>
    /\ to_delete' = <<>>
    /\ calls' = <<>>
    /\ UNCHANGED <<now, lifeVars, predVars, dupVars, chan>>

Next ==
    \/ PurgeCmd \/ EmbedsCmd \/ RegexCmd \/ FilesCmd \/ ImagesCmd \/ UserCmd
    \/ ContainsCmd \/ BotCmd \/ EmojiCmd \/ ReactionsCmd \/ ReactionsRun
    \/ SelfCmd \/ MineCmd \/ LinksCmd
    \/ AfterCmd \/ AfterResolve \/ AfterScan
    \/ BeforeCmd \/ BeforeResolve \/ BeforeScan
    \/ BetweenCmd \/ BetweenResolveOne \/ BetweenResolveTwo \/ BetweenScan
    \/ DuplicatesCmd \/ DuplicatesScan
    \/ CreateCase \/ MassPurge \/ SendConfirmation
    \/ CustomCmd \/ CleanupScan \/ CleanupNothing \/ CleanupDispatch
    \/ Return

Spec == InitCmd /\ [][Next]_vars

----------------------------------------------------------------------------
(* Claims about the command handlers *)

RangeCmds == {"after", "before", "between"}
TailCmds == RangeCmds \cup {"duplicates"}

\* the invocation sent its "Successfully deleted N" confirmation
Confirmed ==
    /\ pc = "done"
    /\ calls # <<>>
    /\ calls[Len(calls)].op = "send"
    /\ calls[Len(calls)].text = "deleted"
    /\ calls[Len(calls)].ok

\* the scan has run
Scanned == CallsOf("history") # {}

\* C2 as stated: an invocation whose scan matched no message creates no
\* audit record and requests no bulk delete, and replies that there is
\* nothing to delete.
C2_NoDispatchOnZeroMatches ==
    (ctx.cmd # "reactions" /\ Scanned /\ scan = <<>>) =>
        /\ \A k \in CallsOf("case") : ~calls[k].ok
        /\ CallsOf("purge") = {}
        /\ pc = "done" => \E k \in CallsOf("send") : calls[k].text = "nothing"

\* C3 (as amended): what before and between hand to the bulk delete is the
\* scan result with the command message appended, one message more than the
\* scan returned; what after hands over is the scan result itself.
C3_DeletionSet ==
    \A k \in CallsOf("purge") :
        /\ ctx.cmd \in {"before", "between"} =>
              /\ calls[k].msgs = Append(scan, CmdId)
              /\ Len(calls[k].msgs) = Len(scan) + 1
        /\ ctx.cmd = "after" => calls[k].msgs = scan

\* C3 witness: before found two predecessors and handed three messages over.
C3_Witness ==
    /\ ctx.cmd = "before"
    /\ Len(scan) = 2
    /\ \E k \in CallsOf("purge") : Len(calls[k].msgs) = 3

\* C3 as stated: in after, before and between alike the bulk delete gets
\* the scan result plus the command message.
C3_Original ==
    \A k \in CallsOf("purge") :
        ctx.cmd \in RangeCmds => calls[k].msgs = Append(scan, CmdId)

Unresolved ==
    IF ctx.cmd = "between"
      THEN ~Exists(ctx.id1) \/ ~Exists(ctx.id2)
      ELSE \/ ctx.id1 # 0 /\ ~Exists(ctx.id1)
           \/ ctx.id1 = 0 /\ (ctx.ref = 0 \/ ~Exists(ctx.ref))

\* C6: when a boundary of after, before or between cannot be resolved, the
\* handler (once entered) never scans, creates no audit record and requests no bulk
\* delete; it ends having sent one user-facing message.
C6_UnresolvedBoundary ==
    (ctx.cmd \in RangeCmds /\ pc # "rejected" /\ Unresolved) =>
        /\ pc \in {"resolve", "resolve2", "done"}
        /\ CallsOf("history") = {} /\ CallsOf("case") = {} /\ CallsOf("purge") = {}
        /\ scan = <<>> /\ to_delete = <<>>
        /\ pc = "done" =>
              /\ Cardinality(CallsOf("send")) = 1
              /\ calls[Len(calls)].op = "send"
              /\ calls[Len(calls)].text \in {"not_found", "could_not_find"}

\* C6 witness: between resolved its first id, not its second, and returned.
C6_Witness ==
    /\ ctx.cmd = "between" /\ Exists(ctx.id1) /\ ~Exists(ctx.id2)
    /\ pc = "done"
    /\ Len(calls) = 3 /\ calls[3].text = "not_found"

\* C7: an invocation of after, before, between or duplicates that sent its
\* confirmation created exactly one audit record and requested exactly one
\* bulk delete, of its deletion set; no invocation creates a second audit
\* record.
C7_OneAuditOnePurge ==
    ctx.cmd \in TailCmds =>
        /\ Cardinality(CallsOf("case")) <= 1
        /\ Confirmed =>
              /\ Cardinality(CallsOf("case")) = 1
              /\ Cardinality(CallsOf("purge")) = 1
              /\ \A k \in CallsOf("case") \cup CallsOf("purge") : calls[k].ok
              /\ \A k \in CallsOf("purge") : calls[k].msgs = to_delete

\* C7 witness: duplicates matched a message and sent its confirmation.
C7_Witness ==
    /\ ctx.cmd = "duplicates" /\ scan # <<>>
    /\ Confirmed

\* the number a command scans with when none is given
DefaultOf(c) ==
    CASE c.cmd = "duplicates" -> 50
      [] c.cmd = "contains" -> 100
      [] c.cmd = "custom" -> IF c.mode.flags.after # 0 THEN 2000 ELSE 100
      [] OTHER -> 100

\* C9 (as amended): a count that reaches a history scan lies in 1..2000; it
\* is the supplied count when that lies in the range and the command's
\* default when none was supplied.  A supplied count outside the range is
\* not clamped: the invocation is rejected before any host call, except in
\* custom, which may instead go on with its default.
C9_CountInRange ==
    /\ \A k \in CallsOf("history") :
          calls[k].count.some =>
              /\ calls[k].count.val \in 1..2000
              /\ calls[k].count.val =
                    IF ctx.raw.some /\ ctx.raw.val \in 1..2000
                        THEN ctx.raw.val ELSE DefaultOf(ctx)
    /\ (ctx.raw.some /\ ctx.raw.val \notin 1..2000) =>
          \/ pc = "rejected" /\ calls = <<>>
          \/ ctx.cmd = "custom" /\ ctx.number = SomeInt(DefaultOf(ctx))

\* C9 witness: before scanned with the supplied count 2000.
C9_Witness ==
    /\ ctx.cmd = "before" /\ ctx.raw = SomeInt(2000)
    /\ \E k \in CallsOf("history") : calls[k].count = SomeInt(2000)

\* C9 as stated: a supplied count outside the range is clamped into it and
\* the scan runs with the clamped count.
C9_Original ==
    (ctx.raw.some /\ ctx.raw.val \notin 1..2000 /\ pc \in {"rejected", "done", "failed"}) =>
        \E k \in CallsOf("history") :
            calls[k].count = SomeInt(IF ctx.raw.val < 1 THEN 1 ELSE 2000)

\* C11: in a custom invocation that has scanned, every message handed to the
\* deletion satisfies all of the selected sub-predicates when require is
\* "all" and at least one of them otherwise; when the scan is unbounded (no
\* before, no after, count at least the channel's length) every message
\* within the horizon that satisfies the combination is handed over; and
\* with no sub-predicate selected and require other than "all" nothing is
\* handed over, no audit record is made and no bulk delete is requested.
Combined(flags, m) ==
    LET tags == Predicates(flags)
    IN  IF flags.require = "all"
          THEN \A i \in 1..Len(tags) : SubPredicate(tags[i], flags, m)
          ELSE \E i \in 1..Len(tags) : SubPredicate(tags[i], flags, m)

CustomScanned == ctx.cmd = "custom" /\ pc \in {"nothing", "dispatch", "done"}

C11_CustomCombinator ==
    CustomScanned =>
        LET flags == ctx.mode.flags
        IN  /\ \A k \in 1..Len(to_delete) :
                  /\ to_delete[k] \in 1..Len(chan)
                  /\ Combined(flags, chan[to_delete[k]])
            /\ (ctx.before = 0 /\ ctx.after = 0 /\ ctx.number.val >= Len(chan)) =>
                  \A k \in 1..Len(chan) :
                      (WithinHorizon(chan[k], now) /\ Combined(flags, chan[k]))
                          => \E j \in 1..Len(to_delete) : to_delete[j] = k
            /\ (Predicates(flags) = <<>> /\ flags.require # "all") =>
                  /\ to_delete = <<>>
                  /\ CallsOf("case") = {}
                  /\ CallsOf("purge") = {}

\* a custom invocation with no flag at all, on a channel that holds a message
\* within the horizon, has answered "nothing to delete"
C11_Witness ==
    /\ ctx.cmd = "custom"
    /\ pc = "done"
    /\ Predicates(ctx.mode.flags) = <<>>
    /\ ctx.mode.flags.require # "all"
    /\ \E k \in 1..Len(chan) : WithinHorizon(chan[k], now)
    /\ to_delete = <<>>
    /\ \E k \in CallsOf("send") : calls[k].text = "nothing"

----------------------------------------------------------------------------
(* SpecLife: construction, the initialization task, loading, unloading *)

\* the task has not ended
Unfinished == task \in {"created", "wait_ready", "registering"}
Ended == task \in {"finished", "raised", "cancelled"}

\* the other specifications' variables do not move
IdleOthers == UNCHANGED <<now, predVars, dupVars, cmdVars>>

InitLife ==
    /\ now = StartNow
    /\ IdlePred
    /\ IdleDup
    /\ IdleCmd
    /\ cog = "none"
    /\ task = "none"
    /\ cancelling = FALSE
    /\ exc = "none"
    /\ callback = "pending"
    /\ logged = <<>>
    /\ escaped = FALSE
    /\ invoked = <<>>
    /\ ready \in BOOLEAN
    /\ registered \in BOOLEAN
    /\ loads = 0

\* __init__: the task is created with its done callback attached, and nothing
\* waits for it.  A cog is constructed anew once the previous one is unloaded
\* and its task has been dealt with.
Construct ==
    /\ cog \in {"none", "unloaded"}
    /\ task = "none" \/ callback = "ran"
    /\ loads < MaxLoads
    /\ cog' = "constructed"
    /\ task' = "created"
    /\ cancelling' = FALSE
    /\ exc' = "none"
    /\ callback' = "pending"
    /\ loads' = loads + 1
    /\ UNCHANGED <<logged, escaped, invoked, ready, registered>>
    /\ IdleOthers

\* the loader adds the constructed cog to the bot
AddCog ==
    /\ cog = "constructed"
    /\ cog' = "loaded"
    /\ UNCHANGED <<task, cancelling, exc, callback, logged, escaped, invoked,
                   ready, registered, loads>>
    /\ IdleOthers

\* the bot becomes ready
BotReady ==
    /\ ~ready
    /\ ready' = TRUE
    /\ UNCHANGED <<cog, task, cancelling, exc, callback, logged, escaped, invoked,
                   registered, loads>>
    /\ IdleOthers

\* _initialize starts and awaits wait_until_red_ready()
InitializeStart ==
    /\ task = "created"
    /\ ~cancelling
    /\ task' = "wait_ready"
    /\ UNCHANGED <<cog, cancelling, exc, callback, logged, escaped, invoked,
                   ready, registered, loads>>
    /\ IdleOthers

\* wait_until_red_ready() returns; _register_casetype awaits the registration
InitializeReady ==
    /\ task = "wait_ready"
    /\ ~cancelling
    /\ ready
    /\ task' = "registering"
    /\ UNCHANGED <<cog, cancelling, exc, callback, logged, escaped, invoked,
                   ready, registered, loads>>
    /\ IdleOthers

\* what modlog.register_casetype does: it registers a new case type, raises
\* RuntimeError for one that is registered already, or fails otherwise
RegisterOutcomes == IF registered THEN {"RuntimeError", "Exception"} ELSE {"none", "Exception"}

\* _register_casetype: a RuntimeError is passed over and the task ends
\* normally; any other exception ends the task
RegisterCasetype ==
    /\ task = "registering"
    /\ ~cancelling
    /\ \E e \in RegisterOutcomes :
        /\ exc' = e
        /\ registered' = (registered \/ e = "none")
        /\ task' = IF e \in {"none", "RuntimeError"} THEN "finished" ELSE "raised"
    /\ UNCHANGED <<cog, cancelling, callback, logged, escaped, invoked, ready, loads>>
    /\ IdleOthers

\* the cancellation reaches the task at the point where it waits; a
\* registration under way may or may not have been made
TaskCancelled ==
    /\ Unfinished
    /\ cancelling
    /\ task' = "cancelled"
    /\ \E r \in {registered, registered \/ task = "registering"} : registered' = r
    /\ UNCHANGED <<cog, cancelling, exc, callback, logged, escaped, invoked, ready, loads>>
    /\ IdleOthers

TaskDoneCallback_NoCatch ==
    /\ Ended
    /\ callback = "pending"
    /\ callback' = "ran"
    /\ escaped' = (escaped \/ task \in {"raised", "cancelled"})
    /\ UNCHANGED <<cog, task, cancelling, exc, logged, invoked, ready, registered, loads>>
    /\ IdleOthers

\* _task_done_callback: task.result() raises what the task ended with;
\* CancelledError is passed over, any other exception is logged
TaskDoneCallback ==
    /\ Ended
    /\ callback = "pending"
    /\ callback' = "ran"
    /\ logged' = IF task = "raised" THEN Append(logged, loads) ELSE logged
    /\ UNCHANGED <<cog, task, cancelling, exc, escaped, invoked, ready, registered, loads>>
    /\ IdleOthers

\* cog_unload: self.task.cancel(), which does nothing to a task that has ended
CogUnload ==
    /\ cog = "loaded"
    /\ cog' = "unloaded"
    /\ cancelling' = Unfinished
    /\ UNCHANGED <<task, exc, callback, logged, escaped, invoked, ready, registered, loads>>
    /\ IdleOthers

\* a command of the loaded cog is invoked
Invoke ==
    /\ cog = "loaded"
    /\ Len(invoked) < MaxInvoke
    /\ invoked' = Append(invoked, task)
    /\ UNCHANGED <<cog, task, cancelling, exc, callback, logged, escaped, ready,
                   registered, loads>>
    /\ IdleOthers

NextLife ==
    \/ Construct \/ AddCog \/ BotReady
    \/ InitializeStart \/ InitializeReady \/ RegisterCasetype \/ TaskCancelled
    \/ TaskDoneCallback \/ CogUnload \/ Invoke

SpecLife == InitLife /\ [][NextLife]_vars

\* the log records of the current cog's task
LoggedNow == { k \in 1..Len(logged) : logged[k] = loads }

\* C12: no exception ever leaves the done callback; a constructed cog can
\* always be loaded and a loaded cog's commands can be invoked, whatever
\* state the task is in; a task whose registration raised RuntimeError has
\* ended normally; and once the callback has run there is exactly one log
\* record for a task that ended with another exception and none for a task
\* that finished or was cancelled.
C12_InitFailureContained ==
    /\ ~escaped
    /\ cog = "constructed" => ENABLED AddCog
    /\ (cog = "loaded" /\ Len(invoked) < MaxInvoke) => ENABLED Invoke
    /\ exc = "RuntimeError" => task = "finished"
    /\ task = "raised" => exc = "Exception"
    /\ callback = "ran" =>
          Cardinality(LoggedNow) = (IF task = "raised" THEN 1 ELSE 0)
    /\ callback = "pending" => LoggedNow = {}

\* the task failed with an exception that was logged, the cog is loaded, and
\* a command was invoked after the failure
C12_Witness ==
    /\ cog = "loaded"
    /\ task = "raised"
    /\ callback = "ran"
    /\ LoggedNow # {}
    /\ \E i \in 1..Len(invoked) : invoked[i] = "raised"

\* the "Successfully deleted N" confirmations among the host calls
Confirmations == { k \in CallsOf("send") : calls[k].text = "deleted" }

\* C13: in after, before, between and duplicates the history scan precedes
\* the audit record, every bulk-delete request follows an audit record that
\* was made, and every confirmation follows a bulk delete that returned; when
\* the bulk delete raised, the audit record exists, no confirmation was sent
\* and the handler has ended.
C13_DispatchOrder ==
    ctx.cmd \in TailCmds =>
        /\ \A k \in CallsOf("case") : \A j \in CallsOf("history") : j < k
        /\ \A k \in CallsOf("purge") :
              \E j \in CallsOf("case") : j < k /\ calls[j].ok
        /\ \A k \in Confirmations :
              \E j \in CallsOf("purge") : j < k /\ calls[j].ok
        /\ (\E k \in CallsOf("purge") : ~calls[k].ok) =>
              /\ \E j \in CallsOf("case") : calls[j].ok
              /\ Confirmations = {}
              /\ pc = "failed"

\* the bulk delete of a before invocation raised after its audit record was made
C13_Witness ==
    /\ ctx.cmd = "before"
    /\ pc = "failed"
    /\ \E k \in CallsOf("purge") :
          /\ ~calls[k].ok
          /\ \E j \in CallsOf("case") : j < k /\ calls[j].ok
    /\ Confirmations = {}

====
